---- MODULE Spec2Model ----
(***************************************************************************)
(* Wesolowski VDF over class groups of binary quadratic forms.             *)
(*                                                                         *)
(* The class-group arithmetic (class_group.rs), the Fiat-Shamir prime      *)
(* (crypto.rs) and the protocol (vdf.rs) are translated operation by       *)
(* operation.  BigInt `/` and `%` truncate toward zero, as in num-bigint.  *)
(* A Rust panic (division by zero, failed assertion) is the outcome        *)
(* st = "panic"; a value that leaves the magnitude window of the model is  *)
(* the outcome st = "overflow", and actions are disabled on it.            *)
(***************************************************************************)
EXTENDS Integers, Sequences, FiniteSets, TLC

\* ---------------------------------------------------------------- bounds
MaxMagnitude == 16384      \* |a|, |b|, |c| handled by the model
MinAbsDisc == 12           \* scaled acceptance window of the discriminant
MaxAbsDisc == 31
MaxAlgDisc == 47           \* |D| up to MaxAlgDisc in the algebraic operations
MaxT == 3                  \* iteration counts 0..MaxT
MaxDigest == 4             \* Fiat-Shamir digests 0..MaxDigest
MaxExp == 5                \* exponents 0..MaxExp handed to pow
MaxFlipBit == 3            \* bits 0..MaxFlipBit of a component of y are flipped
MinWideDisc == 2047        \* |D| of the forms with two-byte magnitudes
MaxWideDisc == 2055
MaxReduceB == 7            \* a in 1..MaxReduceB, |b| <= MaxReduceB of the forms handed to reduce
MaxPrimeInput == 2100      \* digests and candidates 0..MaxPrimeInput of the primality test
HashBits == 8              \* scaled width of a SHA-256 digest in generate_discriminant
MaxBitLength == 12         \* bit_length arguments 0..MaxBitLength

\* ------------------------------------------------------ BigInt arithmetic
Abs(x) == IF x < 0 THEN -x ELSE x

\* BigInt `/`: quotient truncated toward zero (y # 0)
TDiv(x, y) ==
    IF (x < 0) = (y < 0) THEN Abs(x) \div Abs(y) ELSE -(Abs(x) \div Abs(y))

\* BigInt `%`: remainder with the sign of the dividend (y # 0)
TRem(x, y) == x - y * TDiv(x, y)

Fits(x) == Abs(x) <= MaxMagnitude
\* x * y and x * x stay below 2^31
MulFits(x, y) == x = 0 \/ Abs(y) <= 2147483647 \div Abs(x)
SquareFits(x) == Abs(x) <= 46340

\* ------------------------------------------------------- class_group.rs
Elem(a, b, c, D) == [st |-> "ok", a |-> a, b |-> b, c |-> c, discriminant |-> D]
Panic == [st |-> "panic", a |-> 0, b |-> 0, c |-> 0, discriminant |-> 0]
Overflow == [st |-> "overflow", a |-> 0, b |-> 0, c |-> 0, discriminant |-> 0]

MAX_STEPS == 1000

RECURSIVE gcd(_, _)
gcd(a, b) == IF b = 0 THEN a ELSE gcd(b, TRem(a, b))

RECURSIVE egcd_loop(_, _, _, _, _, _)
\* one pass of the while loop of extended_gcd() with its quotient
egcd_step(old_r, r, old_s, s, old_t, t, quotient) ==
    egcd_loop(r, old_r - quotient * r,
              s, old_s - quotient * s,
              t, old_t - quotient * t)

egcd_loop(old_r, r, old_s, s, old_t, t) ==
    IF r = 0 THEN <<old_r, old_s, old_t>>
    ELSE egcd_step(old_r, r, old_s, s, old_t, t, TDiv(old_r, r))

extended_gcd(a, b) == egcd_loop(a, b, 1, 0, 0, 1)

generator(D) == Elem(2, 1, TDiv(1 * 1 - D, 4 * 2), D)

identity(D) == Elem(1, 1, TDiv(1 * 1 - D, 4 * 1), D)

\* ClassGroupElement::new
new_element(a, b, D) ==
    IF a = 0 THEN Panic ELSE Elem(a, b, TDiv(b * b - D, 4 * a), D)

\* state of the while loop of reduce(): the form, the step counter, whether
\* the loop has left through `break`, and the outcome
LoopState(a, b, c, steps, done, st) ==
    [a |-> a, b |-> b, c |-> c, steps |-> steps, done |-> done, st |-> st]

\* reduce(): `if a > c { swap(a, c); b = -b }`
reduce_swap(x) ==
    IF x.a > x.c THEN [x EXCEPT !.a = x.c, !.b = -x.b, !.c = x.a] ELSE x

\* reduce(): b -= 2qa and c -= q(b + qa) for the quotient q (b is the old b)
reduce_apply(x, q) ==
    [x EXCEPT !.b = x.b - 2 * q * x.a, !.c = x.c - q * (x.b + q * x.a)]

\* reduce(): `if |b| > a { q = (b + a) / (2a); ... }`; 2a = 0 panics
reduce_normalize(x) ==
    IF Abs(x.b) > x.a
    THEN IF x.a = 0 THEN [x EXCEPT !.done = TRUE, !.st = "panic"]
         ELSE reduce_apply(x, TDiv(x.b + x.a, 2 * x.a))
    ELSE x

\* reduce(): the `break` test with its sign fix, else steps += 1
reduce_test(x) ==
    IF x.done THEN x
    ELSE IF Abs(x.b) <= x.a /\ x.a <= x.c
         THEN IF (Abs(x.b) = x.a \/ x.a = x.c) /\ x.b < 0
              THEN [x EXCEPT !.b = -x.b, !.done = TRUE]
              ELSE [x EXCEPT !.done = TRUE]
         ELSE [x EXCEPT !.steps = x.steps + 1]

\* one iteration of the while loop of reduce()
reduce_step(x) ==
    IF ~(Fits(x.a) /\ Fits(x.b) /\ Fits(x.c))
    THEN LoopState(0, 0, 0, x.steps, TRUE, "overflow")
    ELSE reduce_test(reduce_normalize(reduce_swap(x)))

\* n iterations of the loop from x, stopping at `break`; y is x after one
\* iteration.  A pass that neither breaks nor changes the form repeats
\* unchanged until the cap, so the remaining n - 1 passes only advance the
\* counter; otherwise the remaining passes are split in halves, which keeps
\* the evaluation depth logarithmic
RECURSIVE reduce_loop(_, _)
reduce_rest(x, y, n) ==
    IF y.done \/ n = 1 THEN y
    ELSE IF y.a = x.a /\ y.b = x.b /\ y.c = x.c
         THEN [y EXCEPT !.steps = x.steps + n]
    ELSE reduce_loop(reduce_loop(y, (n - 1) \div 2), (n - 1) - (n - 1) \div 2)

reduce_loop(x, n) ==
    IF x.done \/ n = 0 THEN x ELSE reduce_rest(x, reduce_step(x), n)

\* reduce(): after the loop, c is recomputed when the discriminant differs
reduce_finish(x, D) ==
    IF x.st = "panic" THEN Panic
    ELSE IF x.st = "overflow" THEN Overflow
    ELSE IF ~(Fits(x.a) /\ Fits(x.b) /\ Fits(x.c)) THEN Overflow
    ELSE IF x.b * x.b - 4 * x.a * x.c # D
         THEN IF x.a = 0 THEN Panic
              ELSE Elem(x.a, x.b, TDiv(x.b * x.b - D, 4 * x.a), D)
         ELSE Elem(x.a, x.b, x.c, D)

reduce(a, b, c, D) ==
    reduce_finish(reduce_loop(LoopState(a, b, c, 0, FALSE, "ok"), MAX_STEPS), D)

\* compose(): c3 = (b3^2 - D) / (4 a3) and the form handed to reduce()
compose_form(a3, b3, D) ==
    IF ~SquareFits(b3) THEN Overflow
    ELSE IF a3 = 0 THEN Panic
    ELSE Elem(a3, b3, TDiv(b3 * b3 - D, 4 * a3), D)

\* compose(): b3 = b1 + k * m of the general branch
compose_general_b3(a3, b1, k, m, D) ==
    IF ~MulFits(k, m) THEN Overflow ELSE compose_form(a3, b1 + k * m, D)

\* compose(): the general branch on a1/g, a2/g, s/g
compose_general(b1, G, a1_g, a2_g, s_g, D) ==
    compose_general_b3(G * a1_g * a2_g, b1,
                       2 * G * a2_g * extended_gcd(a1_g, a2_g)[2],
                       s_g - TDiv(b1, G), D)

\* compose(): the branch on g = gcd(gcd(a1, a2), s)
compose_branch(a1, b1, a2, b2, s, G, D) ==
    IF G = 1 THEN compose_form(a1 * a2, b1 + 2 * a2 * TDiv(b2 - b1, 2), D)
    ELSE IF G = 0 THEN Panic
    ELSE compose_general(b1, G, TDiv(a1, G), TDiv(a2, G), TDiv(s, G), D)

compose_s(a1, b1, a2, b2, s, D) ==
    compose_branch(a1, b1, a2, b2, s, gcd(gcd(a1, a2), s), D)

\* the form handed to reduce() by compose(), before reduction
compose_raw(f, g) ==
    IF ~(Fits(f.a) /\ Fits(f.b) /\ Fits(g.a) /\ Fits(g.b)) THEN Overflow
    ELSE compose_s(f.a, f.b, g.a, g.b, TDiv(f.b + g.b, 2), f.discriminant)

\* compose(): the trailing reduce()
compose_reduce(raw) ==
    IF raw.st # "ok" THEN raw
    ELSE reduce(raw.a, raw.b, raw.c, raw.discriminant)

\* compose without the short-circuit on the second operand
compose_left_only(f, g) ==
    IF f.st # "ok" THEN f
    ELSE IF g.st # "ok" THEN g
    ELSE IF f.discriminant # g.discriminant THEN Panic
    ELSE IF f.a = 1 THEN g
    ELSE compose_reduce(compose_raw(f, g))

compose(f, g) ==
    IF f.st # "ok" THEN f
    ELSE IF g.st # "ok" THEN g
    ELSE IF f.discriminant # g.discriminant THEN Panic
    ELSE IF f.a = 1 THEN g
    ELSE IF g.a = 1 THEN f
    ELSE compose_reduce(compose_raw(f, g))

square(f) == compose(f, f)

\* the while loop of pow(); exp >= 0.  Every pass squares the base, the last
\* one too, so a panic of that squaring is the outcome of pow
RECURSIVE pow_loop(_, _, _)
pow_loop(result, base, exp) ==
    IF result.st # "ok" THEN result
    ELSE IF base.st # "ok" THEN base
    ELSE IF exp = 0 THEN result
    ELSE pow_loop(IF TRem(exp, 2) = 1 THEN compose(result, base) ELSE result,
                  square(base), exp \div 2)

pow(f, exp) ==
    IF exp = 0 THEN identity(f.discriminant)
    ELSE IF exp = 1 THEN f
    ELSE pow_loop(identity(f.discriminant), f, exp)

\* ------------------------------------------------ bytes (num-bigint, u32)
\* BigUint::to_bytes_be: big-endian magnitude, a single 0 byte for zero
RECURSIVE to_bytes_be(_)
to_bytes_be(n) ==
    IF n < 256 THEN <<n>> ELSE Append(to_bytes_be(n \div 256), n % 256)

\* BigInt::from_bytes_be magnitude; -1 when it leaves the magnitude window
RECURSIVE from_bytes_acc(_, _, _)
from_bytes_acc(bytes, k, acc) ==
    IF k > Len(bytes) THEN acc
    ELSE IF acc * 256 + bytes[k] > MaxMagnitude THEN -1
    ELSE from_bytes_acc(bytes, k + 1, acc * 256 + bytes[k])

from_bytes_be(bytes) == from_bytes_acc(bytes, 1, 0)

\* (n as u32).to_be_bytes()
u32_to_be_bytes(n) ==
    << (n \div 16777216) % 256, (n \div 65536) % 256, (n \div 256) % 256, n % 256 >>

\* u32::from_be_bytes as usize; values of 2^30 and more are all represented
\* by 2^30, which is beyond the length of every buffer of the model
u32_from_be_bytes(b0, b1, b2, b3) ==
    IF b0 >= 64 THEN 1073741824
    ELSE ((b0 * 256 + b1) * 256 + b2) * 256 + b3

\* one component of serialize(): length, sign flag, magnitude
serialize_bytes(x, bytes) ==
    u32_to_be_bytes(Len(bytes)) \o << IF x < 0 THEN 1 ELSE 0 >> \o bytes

serialize_int(x) == serialize_bytes(x, to_bytes_be(Abs(x)))

serialize(x) == serialize_int(x.a) \o serialize_int(x.b) \o serialize_int(x.c)

Read(ok, ovf, value, offset) ==
    [ok |-> ok, ovf |-> ovf, value |-> value, offset |-> offset]

\* a reader that drops the sign byte
read_value_unsigned(minus, m, offset) == Read(TRUE, m = -1, m, offset)

\* deserialize(): the magnitude m of a component, negated under the Minus sign
read_value(minus, m, offset) ==
    Read(TRUE, m = -1, IF minus THEN -m ELSE m, offset)

\* deserialize(): sign byte at off1 and magnitude of `len` bytes after it;
\* the sign is Minus for the byte 1 and Plus for every other byte
read_body(bytes, off1, len) ==
    IF off1 + 1 > Len(bytes) THEN Read(FALSE, FALSE, 0, off1)
    ELSE IF off1 + 1 + len > Len(bytes) THEN Read(FALSE, FALSE, 0, off1 + 1)
    ELSE read_value(bytes[off1 + 1] = 1,
                    from_bytes_be(SubSeq(bytes, off1 + 2, off1 + 1 + len)),
                    off1 + 1 + len)

\* one component of deserialize() read at `offset` (0-based): ok = FALSE is
\* the `return None`; ovf marks a magnitude outside the window
read_int(bytes, offset) ==
    IF offset + 4 > Len(bytes) THEN Read(FALSE, FALSE, 0, offset)
    ELSE read_body(bytes, offset + 4,
                   u32_from_be_bytes(bytes[offset + 1], bytes[offset + 2],
                                     bytes[offset + 3], bytes[offset + 4]))

None == [st |-> "none", a |-> 0, b |-> 0, c |-> 0, discriminant |-> 0]

deserialize_c(ra, rb, rc, D) ==
    IF ~rc.ok THEN None
    ELSE IF ra.ovf \/ rb.ovf \/ rc.ovf THEN Overflow
    ELSE Elem(ra.value, rb.value, rc.value, D)

deserialize_b(bytes, ra, rb, D) ==
    IF ~rb.ok THEN None ELSE deserialize_c(ra, rb, read_int(bytes, rb.offset), D)

deserialize_a(bytes, ra, D) ==
    IF ~ra.ok THEN None ELSE deserialize_b(bytes, ra, read_int(bytes, ra.offset), D)

deserialize(bytes, D) ==
    IF Len(bytes) < 15 THEN None ELSE deserialize_a(bytes, read_int(bytes, 0), D)

\* number of bytes deserialize() walks over for an element it accepts
consumed(bytes) == read_int(bytes, read_int(bytes, read_int(bytes, 0).offset).offset).offset

\* ------------------------------------------------------------- crypto.rs
RECURSIVE mod_pow_loop(_, _, _, _)
mod_pow_loop(result, base, exp, modulus) ==
    IF exp = 0 THEN result
    ELSE mod_pow_loop(IF TRem(exp, 2) = 1 THEN TRem(result * base, modulus) ELSE result,
                      TRem(base * base, modulus), exp \div 2, modulus)

mod_pow(base, exp, modulus) ==
    IF exp = 0 THEN 1 ELSE mod_pow_loop(1, TRem(base, modulus), exp, modulus)

witnesses == <<2, 3, 5, 7, 11, 13, 17, 19, 23>>

\* n - 1 = 2^r * d with d odd: the pair <<d, r>>
RECURSIVE decompose(_, _)
decompose(d, r) == IF TRem(d, 2) = 0 THEN decompose(d \div 2, r + 1) ELSE <<d, r>>

\* the squaring loop `for _ in 0..r-1`: TRUE when n - 1 is met
RECURSIVE squares_reach(_, _, _)
squares_next(x2, n, count) ==
    IF x2 = n - 1 THEN TRUE ELSE squares_reach(x2, n, count - 1)

squares_reach(x, n, count) ==
    IF count <= 0 THEN FALSE ELSE squares_next(mod_pow(x, 2, n), n, count)

\* the loop over the witnesses from index k on
RECURSIVE witness_loop(_, _)
\* a test without the squaring loop
witness_test_no_squaring(n, k, x, r) ==
    IF x = 1 \/ x = n - 1 THEN witness_loop(n, k + 1) ELSE FALSE

\* one witness a with x = a^d mod n, n - 1 = 2^r * d
witness_test(n, k, x, r) ==
    IF x = 1 \/ x = n - 1 THEN witness_loop(n, k + 1)
    ELSE IF squares_reach(x, n, r - 1) THEN witness_loop(n, k + 1)
    ELSE FALSE

witness_round(n, k, a, dr) ==
    IF n <= a THEN n = a ELSE witness_test(n, k, mod_pow(a, dr[1], n), dr[2])

witness_loop(n, k) ==
    IF k > Len(witnesses) THEN TRUE
    ELSE witness_round(n, k, witnesses[k], decompose(n - 1, 0))

is_probably_prime(n) ==
    IF n < 2 THEN FALSE
    ELSE IF n = 2 \/ n = 3 THEN TRUE
    ELSE IF TRem(n, 2) = 0 THEN FALSE
    ELSE witness_loop(n, 1)

RECURSIVE next_prime(_)
next_prime(p) == IF is_probably_prime(p) THEN p ELSE next_prime(p + 2)

\* hash_prime on the SHA-256 digest `hash` of its input
hash_prime(hash) == next_prime(IF TRem(hash, 2) = 0 THEN hash + 1 ELSE hash)

\* the sign and mod-4 adjustment of generate_discriminant on a candidate
adjust_remainder(d, remainder) ==
    IF remainder # -3 THEN d - (remainder + 3) ELSE d

adjust_discriminant(candidate) ==
    adjust_remainder(-Abs(candidate), TRem(-Abs(candidate), 4))

RECURSIVE Pow2(_)
Pow2(n) == IF n = 0 THEN 1 ELSE 2 * Pow2(n - 1)

\* BigInt::bits of a magnitude
RECURSIVE BitLen(_)
BitLen(v) == IF v = 0 THEN 0 ELSE 1 + BitLen(v \div 2)

RETRY_CAP == 10000

\* generate_discriminant(): width of the candidate, a digest or, for a
\* bit_length above the digest width, bit_length.div_ceil(8) bytes of digests
candidate_bits(bit_length) ==
    IF bit_length > HashBits THEN 8 * ((bit_length + 7) \div 8) ELSE HashBits

\* generate_discriminant(): `actual_bits >= bit_length - 8 && actual_bits <=
\* bit_length + 8` in a build without overflow checks, where bit_length - 8
\* wraps to a number near 2^64 for bit_length < 8
in_window(actual_bits, bit_length) ==
    IF bit_length < 8 THEN FALSE
    ELSE actual_bits >= bit_length - 8 /\ actual_bits <= bit_length + 8

\* generate_discriminant(): the fallback -(1 << (bit_length - 1)) - 3,
\* adjusted mod 4; bit_length >= 1
fallback_discriminant(bit_length) ==
    adjust_remainder(-Pow2(bit_length - 1) - 3, TRem(-Pow2(bit_length - 1) - 3, 4))

\* ---------------------------------------------------------------- vdf.rs
\* WesolowskiVDF::new on the accepted discriminant candidate
vdf_of(D) == [generator |-> generator(D), discriminant |-> D]

new_vdf(candidate) == vdf_of(adjust_discriminant(candidate))

\* a loop that stops early once the value is the identity
loop_stops_at_identity(idx, T, cur) == idx < T /\ cur.a # 1

\* the loop condition of compute(): `for _ in 0..iterations`
loop_continues(idx, T, cur) == idx < T

Proof(st, bytes) == [st |-> st, bytes |-> bytes]

\* generate_proof(): pi ++ len(q) ++ q ++ len(r) ++ r
proof_bytes(proof_element, quotient_bytes, remainder_bytes) ==
    IF proof_element.st # "ok" THEN Proof(proof_element.st, <<>>)
    ELSE Proof("ok", serialize(proof_element)
                     \o u32_to_be_bytes(Len(quotient_bytes)) \o quotient_bytes
                     \o u32_to_be_bytes(Len(remainder_bytes)) \o remainder_bytes)

\* generate_proof(): the assertion l * q + r == 2^T, then pi = g^q
proof_of(v, two_pow_t, challenge_prime, quotient, remainder) ==
    IF challenge_prime * quotient + remainder # two_pow_t THEN Proof("panic", <<>>)
    ELSE proof_bytes(pow(v.generator, quotient),
                     to_bytes_be(quotient), to_bytes_be(remainder))

proof_division(v, two_pow_t, challenge_prime) ==
    proof_of(v, two_pow_t, challenge_prime,
             TDiv(two_pow_t, challenge_prime), TRem(two_pow_t, challenge_prime))

\* generate_proof; `hash` is the SHA-256 digest of serialize(g) ++ serialize(y)
generate_proof(v, out, T, hash) == proof_division(v, Pow2(T), hash_prime(hash))

ReadUint(ok, value, offset) == [ok |-> ok, value |-> value, offset |-> offset]

read_uint_body(bytes, off1, len) ==
    IF off1 + len > Len(bytes) THEN ReadUint(FALSE, 0, off1)
    ELSE ReadUint(TRUE, from_bytes_be(SubSeq(bytes, off1 + 1, off1 + len)), off1 + len)

\* a length-prefixed unsigned integer of the proof read at `offset` (0-based)
read_uint(bytes, offset) ==
    IF offset + 4 > Len(bytes) THEN ReadUint(FALSE, 0, offset)
    ELSE read_uint_body(bytes, offset + 4,
                        u32_from_be_bytes(bytes[offset + 1], bytes[offset + 2],
                                          bytes[offset + 3], bytes[offset + 4]))

Verdict(r, hashed) == [result |-> r, hashed |-> hashed]

\* verify(): `left_side == *output`
equation_result(left_side, out) ==
    IF left_side.st # "ok" THEN left_side.st
    ELSE IF left_side = out THEN "true" ELSE "false"

equation_sides(pi_to_l, g_to_r, out) ==
    IF pi_to_l.st # "ok" THEN pi_to_l.st
    ELSE IF g_to_r.st # "ok" THEN g_to_r.st
    ELSE equation_result(compose(pi_to_l, g_to_r), out)

\* the group equation of verify(): pi^l * g^r == y
verify_equation(v, out, proof_element, challenge_prime, remainder) ==
    equation_sides(pow(proof_element, challenge_prime), pow(v.generator, remainder), out)

\* a verifier that goes to the group equation without comparing q and r
verify_division_unchecked(v, out, proof_element, q, r, two_pow_t, challenge_prime) ==
    Verdict(verify_equation(v, out, proof_element, challenge_prime, r), TRUE)

\* verify(): q and r of the proof against 2^T divided by the prime
verify_division(v, out, proof_element, q, r, two_pow_t, challenge_prime) ==
    IF q # TDiv(two_pow_t, challenge_prime) \/ r # TRem(two_pow_t, challenge_prime)
    THEN Verdict("false", TRUE)
    ELSE Verdict(verify_equation(v, out, proof_element, challenge_prime, r), TRUE)

verify_remainder(v, out, proof_element, rq, rr, T, hash) ==
    IF ~rr.ok THEN Verdict("false", FALSE)
    ELSE verify_division(v, out, proof_element, rq.value, rr.value,
                         Pow2(T), hash_prime(hash))

verify_quotient(v, out, proof, proof_element, rq, T, hash) ==
    IF ~rq.ok THEN Verdict("false", FALSE)
    ELSE verify_remainder(v, out, proof_element, rq, read_uint(proof, rq.offset), T, hash)

\* verify(): q is read at the length of the re-serialized proof element
verify_element(v, out, proof, proof_element, T, hash) ==
    IF proof_element.st = "none" THEN Verdict("false", FALSE)
    ELSE IF proof_element.st = "overflow" THEN Verdict("overflow", FALSE)
    ELSE verify_quotient(v, out, proof, proof_element,
                         read_uint(proof, Len(serialize(proof_element))), T, hash)

\* verify; `hash` is the SHA-256 digest of serialize(g) ++ serialize(y).
\* result: "true", "false", "panic", or "overflow" (outside the model)
verify(v, out, proof, T, hash) ==
    IF Len(proof) < 23 THEN Verdict("false", FALSE)
    ELSE verify_element(v, out, proof, deserialize(proof, v.discriminant), T, hash)

\* ------------------------------------------------------------ predicates
Disc(x) == x.b * x.b - 4 * x.a * x.c

IsReduced(x) ==
    /\ x.a > 0
    /\ Abs(x.b) <= x.a
    /\ x.a <= x.c
    /\ (Abs(x.b) = x.a \/ x.a = x.c) => x.b >= 0

\* reduced forms of discriminant D: the inputs of the algebraic operations
ReducedForms(D) ==
    { x \in { Elem(a, b, TDiv(b * b - D, 4 * a), D) :
                 a \in { n \in 1..MaxAlgDisc : 3 * n * n <= -D }, b \in -MaxAlgDisc..MaxAlgDisc } :
        IsReduced(x) /\ Disc(x) = D }

\* negative discriminants with D = 1 (mod 4), i.e. D % 4 == -3 in BigInt terms
Discriminants == { D \in -MaxAlgDisc..-MinAbsDisc : TRem(D, 4) = -3 }

\* forms of discriminant D with a > 0 and c > 0, reduced or not
Forms(D) ==
    { x \in { Elem(a, b, TDiv(b * b - D, 4 * a), D) :
                 a \in 1..MaxReduceB, b \in -MaxReduceB..MaxReduceB } :
        x.c > 0 /\ Disc(x) = D }

\* discriminants whose reduced forms have magnitudes of more than one byte
WideDiscriminants == { D \in -MaxWideDisc..-MinWideDisc : TRem(D, 4) = -3 }

\* digests accepted as discriminant candidates, and Fiat-Shamir digests
DiscDigests == MinAbsDisc..MaxAbsDisc
Digests == 0..MaxDigest

\* n with bit k of its magnitude flipped, the sign kept
FlipMagnitude(m, p) == IF (m \div p) % 2 = 1 THEN m - p ELSE m + p

FlipBit(n, k) ==
    IF n < 0 THEN -FlipMagnitude(-n, Pow2(k)) ELSE FlipMagnitude(n, Pow2(k))

FlipByte(bytes, p, k) == [bytes EXCEPT ![p] = FlipBit(bytes[p], k)]

VARIABLES
    cgD, cgOp, cgIn, cgOut,     \* class-group operation under test
    pc,                         \* "idle", "ready", "squaring", "computed", "verified", "panicked"
    phase,                      \* 1: first instance, 2: instance of another seed
    vdf,                        \* the WesolowskiVDF instance
    iterations, idx, current,   \* compute(): argument, loop index, loop value
    sqCount,                    \* number of square() calls made by compute()
    output, proof,              \* what compute() returned
    sha,                        \* SHA-256 as a lazily sampled function
    kept,                       \* output and proof of the first instance
    call,                       \* arguments of the verify() call
    verdict                     \* its result

VARIABLES
    gdPc,                       \* "idle", "loop", "returned", "panicked"
    gdBitLength,                \* the bit_length argument
    gdChecked,                  \* TRUE: the build traps integer overflow
    gdCounter,                  \* the retry counter
    gdResult                    \* the discriminant returned

gdVars == <<gdPc, gdBitLength, gdChecked, gdCounter, gdResult>>
cgVars == <<cgD, cgOp, cgIn, cgOut>>
vdfVars == <<pc, phase, vdf, iterations, idx, current, sqCount, output, proof,
             sha, kept, call, verdict>>
vars == <<cgD, cgOp, cgIn, cgOut, pc, phase, vdf, iterations, idx, current,
          sqCount, output, proof, sha, kept, call, verdict,
          gdPc, gdBitLength, gdChecked, gdCounter, gdResult>>

NoVdf == [generator |-> None, discriminant |-> 0]
NoKept == [output |-> None, proof |-> <<>>, iterations |-> 0, discriminant |-> 0]
NoCall == [kind |-> "none", output |-> None, proof |-> <<>>, iterations |-> 0,
           pos |-> 0, bit |-> 0]
Call(kind, out, prf, T, pos, bit) ==
    [kind |-> kind, output |-> out, proof |-> prf, iterations |-> T,
     pos |-> pos, bit |-> bit]

CgIdle ==
    /\ cgD = 0
    /\ cgOp = "none"
    /\ cgIn = <<>>
    /\ cgOut = None

GdIdle ==
    /\ gdPc = "idle"
    /\ gdBitLength = 0
    /\ gdChecked = FALSE
    /\ gdCounter = 0
    /\ gdResult = 0

VdfIdle ==
    /\ pc = "idle"
    /\ phase = 1
    /\ vdf = NoVdf
    /\ iterations = 0
    /\ idx = 0
    /\ current = None
    /\ sqCount = 0
    /\ output = None
    /\ proof = <<>>
    /\ sha = << >>
    /\ kept = NoKept
    /\ call = NoCall
    /\ verdict = "none"

\* ----------------------------------------------------- the protocol (Spec)
Init == VdfIdle /\ CgIdle /\ GdIdle

\* WesolowskiVDF::new(challenge); another seed yields another discriminant
New ==
    /\ pc = "idle"
    /\ \E h \in DiscDigests :
        /\ phase = 2 => new_vdf(h).discriminant # kept.discriminant
        /\ vdf' = new_vdf(h)
    /\ pc' = "ready"
    /\ UNCHANGED <<phase, iterations, idx, current, sqCount, output, proof, sha,
                   kept, call, verdict>>
    /\ UNCHANGED cgVars
    /\ UNCHANGED gdVars

\* compute(iterations): entry
ComputeStart ==
    /\ pc = "ready"
    /\ \E T \in 0..MaxT :
        /\ phase = 2 => T = kept.iterations
        /\ iterations' = T
    /\ idx' = 0
    /\ current' = vdf.generator
    /\ sqCount' = 0
    /\ pc' = "squaring"
    /\ UNCHANGED <<phase, vdf, output, proof, sha, kept, call, verdict>>
    /\ UNCHANGED cgVars
    /\ UNCHANGED gdVars

\* compute(): `current = current.square()`
Squared(next) ==
    /\ next.st # "overflow"
    /\ IF next.st = "panic"
       THEN pc' = "panicked" /\ UNCHANGED <<idx, current, sqCount>>
       ELSE /\ current' = next
            /\ idx' = idx + 1
            /\ sqCount' = sqCount + 1
            /\ pc' = pc

\* compute(): one pass of the squaring loop
ComputeSquare ==
    /\ pc = "squaring"
    /\ loop_continues(idx, iterations, current)
    /\ Squared(square(current))
    /\ UNCHANGED <<phase, vdf, iterations, output, proof, sha, kept, call, verdict>>
    /\ UNCHANGED cgVars
    /\ UNCHANGED gdVars

Sample(key, h) == [k \in DOMAIN sha \cup {key} |-> IF k = key THEN h ELSE sha[k]]

\* SHA-256 of `key` is h: the digest sampled before, or any digest
Consistent(key, h) == key \in DOMAIN sha => h = sha[key]

\* compute(): `(current, proof)` returned, or the panic of generate_proof
Proved(key, h, pr) ==
    /\ pr.st # "overflow"
    /\ sha' = Sample(key, h)
    /\ IF pr.st = "panic"
       THEN pc' = "panicked" /\ UNCHANGED <<output, proof>>
       ELSE /\ output' = current
            /\ proof' = pr.bytes
            /\ pc' = "computed"

Hashed(key) ==
    \E h \in Digests :
        /\ Consistent(key, h)
        /\ Proved(key, h, generate_proof(vdf, current, iterations, h))

\* compute(): loop exit, generate_proof and return
ComputeProve ==
    /\ pc = "squaring"
    /\ ~loop_continues(idx, iterations, current)
    /\ Hashed(serialize(vdf.generator) \o serialize(current))
    /\ UNCHANGED <<phase, vdf, iterations, idx, current, sqCount, kept, call, verdict>>
    /\ UNCHANGED cgVars
    /\ UNCHANGED gdVars

\* verify() returned r; the digest is consumed when hash_prime was reached
Verified(key, h, r) ==
    /\ r.result # "overflow"
    /\ sha' = IF r.hashed THEN Sample(key, h) ELSE sha
    /\ verdict' = r.result

VerifyHashed(key, out, prf, T) ==
    \E h \in Digests :
        /\ Consistent(key, h)
        /\ Verified(key, h, verify(vdf, out, prf, T, h))

\* a verify() call on the current instance
DoVerify(kind, out, prf, T, pos, bit) ==
    /\ VerifyHashed(serialize(vdf.generator) \o serialize(out), out, prf, T)
    /\ call' = Call(kind, out, prf, T, pos, bit)
    /\ pc' = "verified"
    /\ UNCHANGED <<phase, vdf, iterations, idx, current, sqCount, output, proof, kept>>
    /\ UNCHANGED cgVars
    /\ UNCHANGED gdVars

\* verify(y, proof, T) with what compute(T) returned
VerifyHonest ==
    /\ pc = "computed" /\ phase = 1
    /\ DoVerify("honest", output, proof, iterations, 0, 0)

FlipInt(n, k) == IF k = -1 THEN -n ELSE FlipBit(n, k)

\* y with bit k of component comp flipped
Flipped(y, comp, k) ==
    IF comp = 1 THEN [y EXCEPT !.a = FlipInt(y.a, k)]
    ELSE IF comp = 2 THEN [y EXCEPT !.b = FlipInt(y.b, k)]
    ELSE [y EXCEPT !.c = FlipInt(y.c, k)]

\* one bit of a component of y flipped (bit = -1: the sign)
VerifyFlipOutput ==
    /\ pc = "computed" /\ phase = 1
    /\ \E comp \in 1..3, k \in -1..MaxFlipBit :
         /\ Flipped(output, comp, k) # output
         /\ DoVerify("flip_y", Flipped(output, comp, k), proof, iterations, comp, k)

\* one bit of the proof bytes flipped
VerifyFlipProof ==
    /\ pc = "computed" /\ phase = 1
    /\ \E p \in 1..Len(proof), k \in 0..7 :
         DoVerify(IF p <= consumed(proof) THEN "flip_pi" ELSE "flip_qr",
                  output, FlipByte(proof, p, k), iterations, p, k)

\* T replaced by T + 1
VerifyNextT ==
    /\ pc = "computed" /\ phase = 1
    /\ DoVerify("next_t", output, proof, iterations + 1, 0, 0)

\* the proof cut short
VerifyTruncated ==
    /\ pc = "computed" /\ phase = 1
    /\ \E n \in 0..(Len(proof) - 1) :
         DoVerify("truncated", output, SubSeq(proof, 1, n), iterations, n, 0)

\* an encoding of x with one leading zero byte in its magnitude
PaddedInt(x) ==
    u32_to_be_bytes(Len(to_bytes_be(Abs(x))) + 1)
        \o << IF x < 0 THEN 1 ELSE 0 >> \o <<0>> \o to_bytes_be(Abs(x))

\* the encoding of zero with a magnitude of length zero
EmptyInt == <<0, 0, 0, 0, 0>>

\* pi encoded with a padded a (1), b (2) or c (3), or with c replaced by a
\* zero of length zero (4)
Reencoded(x, variant) ==
    IF variant = 1 THEN PaddedInt(x.a) \o serialize_int(x.b) \o serialize_int(x.c)
    ELSE IF variant = 2 THEN serialize_int(x.a) \o PaddedInt(x.b) \o serialize_int(x.c)
    ELSE IF variant = 3 THEN serialize_int(x.a) \o serialize_int(x.b) \o PaddedInt(x.c)
    ELSE serialize_int(x.a) \o serialize_int(x.b) \o EmptyInt

\* the proof with pi encoded another way, q and r following it unchanged
VerifyReencoded ==
    /\ pc = "computed" /\ phase = 1
    /\ \E variant \in 1..4 :
         DoVerify("reencoded", output,
                  Reencoded(deserialize(proof, vdf.discriminant), variant)
                      \o SubSeq(proof, consumed(proof) + 1, Len(proof)),
                  iterations, variant, 0)

\* keep (y, proof) and set up the instance of another seed
Rekey ==
    /\ pc = "computed" /\ phase = 1
    /\ kept' = [output |-> output, proof |-> proof, iterations |-> iterations,
                discriminant |-> vdf.discriminant]
    /\ phase' = 2
    /\ pc' = "idle"
    /\ vdf' = NoVdf
    /\ iterations' = 0
    /\ idx' = 0
    /\ current' = None
    /\ sqCount' = 0
    /\ output' = None
    /\ proof' = <<>>
    /\ UNCHANGED <<sha, call, verdict>>
    /\ UNCHANGED cgVars
    /\ UNCHANGED gdVars

Presented(which) ==
    IF which = 1 THEN kept.output
    ELSE IF which = 2
         THEN new_element(kept.output.a, kept.output.b, vdf.discriminant)
         ELSE output

\* the kept proof presented to the instance of the other seed, with the kept
\* output (1), the kept a and b under this discriminant (2), or this
\* instance's own output (3)
VerifyCross ==
    /\ pc = "computed" /\ phase = 2
    /\ \E which \in 1..3 :
         /\ Presented(which).st = "ok"
         /\ DoVerify("cross", Presented(which), kept.proof, iterations, which, 0)

Next ==
    \/ New
    \/ ComputeStart
    \/ ComputeSquare
    \/ ComputeProve
    \/ VerifyHonest
    \/ VerifyFlipOutput
    \/ VerifyFlipProof
    \/ VerifyNextT
    \/ VerifyTruncated
    \/ VerifyReencoded
    \/ Rekey
    \/ VerifyCross

Spec == Init /\ [][Next]_vars

\* ------------------------------------------- class-group operations (SpecAlg)
InitAlg ==
    /\ VdfIdle
    /\ GdIdle
    /\ cgD \in Discriminants
    /\ cgOp = "none"
    /\ cgIn = <<>>
    /\ cgOut = None

\* the operation `op` applied to `args` returned `res`
Returned(op, args, res) ==
    /\ res.st # "overflow"
    /\ cgOp' = op
    /\ cgIn' = args
    /\ cgOut' = res

Compose ==
    /\ cgOp = "none"
    /\ \E f \in ReducedForms(cgD), g \in ReducedForms(cgD) :
        Returned("compose", <<f, g>>, compose(f, g))
    /\ UNCHANGED cgD
    /\ UNCHANGED vdfVars
    /\ UNCHANGED gdVars

Square ==
    /\ cgOp = "none"
    /\ \E f \in ReducedForms(cgD) :
        Returned("square", <<f>>, square(f))
    /\ UNCHANGED cgD
    /\ UNCHANGED vdfVars
    /\ UNCHANGED gdVars

Pow ==
    /\ cgOp = "none"
    /\ \E f \in ReducedForms(cgD), e \in 0..MaxExp :
        Returned("pow", <<f, e>>, pow(f, e))
    /\ UNCHANGED cgD
    /\ UNCHANGED vdfVars
    /\ UNCHANGED gdVars

ComposeChain ==
    /\ cgOp = "none"
    /\ \E f \in ReducedForms(cgD), g \in ReducedForms(cgD), h \in ReducedForms(cgD) :
        Returned("chain", <<f, g, h>>, compose(compose(f, g), h))
    /\ UNCHANGED cgD
    /\ UNCHANGED vdfVars
    /\ UNCHANGED gdVars

\* compose(pow(x, m), pow(x, n))
PowSum ==
    /\ cgOp = "none"
    /\ \E x \in ReducedForms(cgD), m \in 0..MaxExp, n \in 0..MaxExp :
        Returned("pow_sum", <<x, m, n>>, compose(pow(x, m), pow(x, n)))
    /\ UNCHANGED cgD
    /\ UNCHANGED vdfVars
    /\ UNCHANGED gdVars

\* deserialize(serialize(x), D)
RoundTrip ==
    /\ cgOp = "none"
    /\ \E D \in WideDiscriminants \cup {cgD} :
         \E x \in ReducedForms(D) :
            Returned("round_trip", <<x>>, deserialize(serialize(x), D))
    /\ UNCHANGED cgD
    /\ UNCHANGED vdfVars
    /\ UNCHANGED gdVars

\* reduce() on a form built by the caller
Reduce ==
    /\ cgOp = "none"
    /\ \E x \in Forms(cgD) :
         Returned("reduce", <<x>>, reduce(x.a, x.b, x.c, x.discriminant))
    /\ UNCHANGED cgD
    /\ UNCHANGED vdfVars
    /\ UNCHANGED gdVars

\* ClassGroupElement::generator(D)
Generator ==
    /\ cgOp = "none"
    /\ Returned("generator", <<cgD>>, generator(cgD))
    /\ UNCHANGED cgD
    /\ UNCHANGED vdfVars
    /\ UNCHANGED gdVars

\* ClassGroupElement::identity(D)
Identity ==
    /\ cgOp = "none"
    /\ Returned("identity", <<cgD>>, identity(cgD))
    /\ UNCHANGED cgD
    /\ UNCHANGED vdfVars
    /\ UNCHANGED gdVars

Value(v) == [st |-> "ok", value |-> v]

\* hash_prime on the digest h
HashPrime ==
    /\ cgOp = "none"
    /\ \E h \in 0..MaxPrimeInput :
         Returned("hash_prime", <<h>>, Value(hash_prime(h)))
    /\ UNCHANGED cgD
    /\ UNCHANGED vdfVars
    /\ UNCHANGED gdVars

\* is_probably_prime(n)
IsProbablyPrime ==
    /\ cgOp = "none"
    /\ \E n \in 0..MaxPrimeInput :
         Returned("is_probably_prime", <<n>>, Value(is_probably_prime(n)))
    /\ UNCHANGED cgD
    /\ UNCHANGED vdfVars
    /\ UNCHANGED gdVars

NextAlg ==
    \/ Compose
    \/ Square
    \/ Pow
    \/ ComposeChain
    \/ PowSum
    \/ RoundTrip
    \/ Reduce
    \/ Generator
    \/ Identity
    \/ HashPrime
    \/ IsProbablyPrime

SpecAlg == InitAlg /\ [][NextAlg]_vars

\* --------------------------------------- generate_discriminant (SpecDisc)
InitDisc == VdfIdle /\ CgIdle /\ GdIdle

\* candidates of `width` bits: for every bit length the least and the
\* greatest values, in every residue mod 4
Candidates(width) ==
    {0} \cup { v \in UNION { { Pow2(L - 1) + r, Pow2(L) - 1 - r } :
                                L \in 1..width, r \in 0..3 } :
                 v >= 0 /\ BitLen(v) <= width }

\* generate_discriminant(seed, bit_length) entered
GenerateStart ==
    /\ gdPc = "idle"
    /\ gdBitLength' \in 0..MaxBitLength
    /\ gdChecked' \in BOOLEAN
    /\ gdCounter' = 0
    /\ gdPc' = "loop"
    /\ UNCHANGED gdResult
    /\ UNCHANGED cgVars
    /\ UNCHANGED vdfVars

\* counter > 10000: the fallback; bit_length - 1 underflows for bit_length = 0,
\* trapped by the build or followed by a shift that cannot be allocated
Fallback ==
    /\ gdCounter' = gdCounter + 1
    /\ IF gdBitLength < 1
       THEN gdPc' = "panicked" /\ UNCHANGED gdResult
       ELSE gdPc' = "returned" /\ gdResult' = fallback_discriminant(gdBitLength)

\* one pass of the loop on the adjusted candidate
Iterated(discriminant) ==
    IF gdBitLength < 8 /\ gdChecked
    THEN gdPc' = "panicked" /\ UNCHANGED <<gdCounter, gdResult>>
    ELSE IF in_window(BitLen(-discriminant), gdBitLength)
    THEN gdPc' = "returned" /\ gdResult' = discriminant /\ UNCHANGED gdCounter
    ELSE IF gdCounter + 1 > RETRY_CAP
    THEN Fallback
    ELSE gdCounter' = gdCounter + 1 /\ UNCHANGED <<gdPc, gdResult>>

GenerateIterate ==
    /\ gdPc = "loop"
    /\ \E h \in Candidates(candidate_bits(gdBitLength)) :
         Iterated(adjust_discriminant(h))
    /\ UNCHANGED gdBitLength
    /\ UNCHANGED gdChecked
    /\ UNCHANGED cgVars
    /\ UNCHANGED vdfVars

NextDisc == GenerateStart \/ GenerateIterate

SpecDisc == InitDisc /\ [][NextDisc]_vars

\* ------------------------------------------------------------- claims
\* y_n: square applied n times, each to the result of the previous one
RECURSIVE NthSquare(_, _)
NthSquare(x, n) == IF n = 0 THEN x ELSE square(NthSquare(x, n - 1))

OperationReturned == cgOp \in {"compose", "square", "pow"} /\ cgOut.st = "ok"

\* the proof bytes do not encode (pi, q, r) with pi a form of discriminant D:
\* too short, a length overrunning the buffer, a sign byte other than 0 or 1,
\* a zero-length magnitude, a == 0, or a wrong discriminant
SignByteAt(bytes, offset) == bytes[offset + 5] > 1

BadSignByte(bytes) ==
    \/ SignByteAt(bytes, 0)
    \/ SignByteAt(bytes, read_int(bytes, 0).offset)
    \/ SignByteAt(bytes, read_int(bytes, read_int(bytes, 0).offset).offset)

ZeroLengthAt(bytes, offset) == read_int(bytes, offset).offset = offset + 5

ZeroLength(bytes) ==
    \/ ZeroLengthAt(bytes, 0)
    \/ ZeroLengthAt(bytes, read_int(bytes, 0).offset)
    \/ ZeroLengthAt(bytes, read_int(bytes, read_int(bytes, 0).offset).offset)

MalformedElement(bytes, e, D) ==
    \/ e.st = "none"
    \/ /\ e.st = "ok"
       /\ \/ BadSignByte(bytes)
          \/ ZeroLength(bytes)
          \/ e.a = 0
          \/ Disc(e) # D

Malformed(bytes, D) ==
    \/ Len(bytes) < 23
    \/ MalformedElement(bytes, deserialize(bytes, D), D)

\* C1: verify(y, proof, T) returns true on what compute(T) returned, for
\* every prime the Fiat-Shamir hash yields
C1_Completeness == call.kind = "honest" => verdict = "true"

\* C2: every element returned by compose, square and pow on reduced forms of
\* discriminant D satisfies b^2 - 4ac = D
C2_DiscriminantInvariant == OperationReturned => Disc(cgOut) = cgD

\* C3: every element returned by compose, square and pow on reduced forms is
\* reduced: a > 0, |b| <= a <= c, and b >= 0 on the boundaries
C3_ReducednessInvariant == OperationReturned => IsReduced(cgOut)

\* C4: verify returns false when one bit of y or of the encoding of pi is
\* flipped, or when T is replaced by T + 1
C4_SoundnessSanity ==
    call.kind \in {"flip_y", "flip_pi", "next_t"} => verdict = "false"

\* C5: a proof computed under one seed is rejected by the instance of another
\* seed at the same T, whichever output is presented with it
C5_CrossSeedRejection == call.kind = "cross" => verdict = "false"

\* C6: on a malformed proof verify returns false; it neither panics nor
\* returns true
C6_MalformedRejected ==
    call.kind # "none" /\ Malformed(call.proof, vdf.discriminant)
        => verdict = "false"

\* C7: compute(T) applies square exactly T times starting from g, each to the
\* previous result, without early exit; it returns y_T, which is g for T = 0
C7_Sequentiality ==
    /\ pc = "squaring" =>
         /\ sqCount = idx
         /\ idx <= iterations
         /\ current = NthSquare(vdf.generator, idx)
    /\ pc = "computed" =>
         /\ sqCount = iterations
         /\ output = NthSquare(vdf.generator, iterations)
         /\ iterations = 0 => output = vdf.generator

\* compute returned after T >= 2 squarings although y_1 is the identity
C7_Witness ==
    /\ pc = "computed"
    /\ iterations >= 2
    /\ sqCount = iterations
    /\ NthSquare(vdf.generator, 1).a = 1

\* C8: compose(identity(D), x) = x and compose(x, identity(D)) = x for every
\* reduced form x of discriminant D
C8_IdentityLaw ==
    cgOp = "compose" =>
        /\ cgIn[1] = identity(cgD) => cgOut = cgIn[2]
        /\ cgIn[2] = identity(cgD) => cgOut = cgIn[1]

\* compose(x, identity) was applied to a form x with a > 1 and b < 0
C8_Witness ==
    /\ cgOp = "compose"
    /\ cgIn[2] = identity(cgD)
    /\ cgIn[1].a > 1
    /\ cgIn[1].b < 0
    /\ cgOut = cgIn[1]

\* C9: compose(f, g) = compose(g, f) for all reduced forms f, g
C9_Commutativity == cgOp = "compose" => cgOut = compose(cgIn[2], cgIn[1])

\* C10: compose(compose(f, g), h) = compose(f, compose(g, h)) for all reduced
\* forms f, g, h
C10_Associativity ==
    cgOp = "chain" => cgOut = compose(cgIn[1], compose(cgIn[2], cgIn[3]))

\* C11: compose(pow(x, m), pow(x, n)) = pow(x, m + n) for every reduced form x
\* and all m, n >= 0; pow(x, 0) = identity(D) and pow(x, 1) = x
PowOfSum == pow(cgIn[1], cgIn[2] + cgIn[3])

C11_ExponentLaw ==
    /\ cgOp = "pow_sum" /\ PowOfSum.st # "overflow" => cgOut = PowOfSum
    /\ cgOp = "pow" /\ cgIn[2] = 0 => cgOut = identity(cgD)
    /\ cgOp = "pow" /\ cgIn[2] = 1 => cgOut = cgIn[1]

\* C12: deserialize(serialize(x), D) returns x, equal in a, b, c and
\* discriminant, for every reduced form x of discriminant D
C12_RoundTrip == cgOp = "round_trip" => cgOut = cgIn[1]

\* a form with negative b and a two-byte c went through the round trip
C12_Witness ==
    /\ cgOp = "round_trip"
    /\ cgIn[1].b < 0
    /\ cgIn[1].c >= 256
    /\ cgOut = cgIn[1]

\* C13: generate_discriminant(seed, n) returns D < 0 with D % 4 == -3 and
\* bitlen(D) in [n - 8, n + 8], for an accepted candidate and for the fallback
\* alike, and n - 8 and n - 1 do not underflow for small n
C13_DiscriminantDerivation ==
    /\ gdPc # "panicked"
    /\ gdPc = "returned" =>
         /\ gdResult < 0
         /\ TRem(gdResult, 4) = -3
         /\ BitLen(-gdResult) >= gdBitLength - 8
         /\ BitLen(-gdResult) <= gdBitLength + 8

\* what the verify() call of the state parsed from its proof, and the prime it
\* recomputed from serialize(g) and serialize(y)
ParsedElement == deserialize(call.proof, vdf.discriminant)
ParsedQ == read_uint(call.proof, Len(serialize(ParsedElement)))
ParsedR == read_uint(call.proof, ParsedQ.offset)
Parses ==
    /\ pc = "verified"
    /\ Len(call.proof) >= 23
    /\ ParsedElement.st = "ok"
    /\ ParsedQ.ok
    /\ ParsedR.ok
RecomputedPrime == hash_prime(sha[serialize(vdf.generator) \o serialize(call.output)])
FieldsDiffer ==
    \/ ParsedQ.value # TDiv(Pow2(call.iterations), RecomputedPrime)
    \/ ParsedR.value # TRem(Pow2(call.iterations), RecomputedPrime)
LowBitOfR == call.kind = "flip_qr" /\ call.pos = Len(call.proof) /\ call.bit = 0

\* C14: when the proof parses and q differs from 2^T / l or r from 2^T mod l,
\* verify returns false; flipping the lowest bit of the r bytes of a valid
\* proof makes verify return false
C14_RedundantFieldCheck ==
    /\ Parses /\ FieldsDiffer => verdict = "false"
    /\ LowBitOfR => verdict = "false"

\* the lowest bit of r was flipped, the proof parsed, r differed, and verify
\* returned false
C14_Witness ==
    /\ LowBitOfR
    /\ Parses
    /\ ParsedR.value # TRem(Pow2(call.iterations), RecomputedPrime)
    /\ verdict = "false"

\* the class-group law: Dirichlet composition followed by reduction with
\* floor division
RECURSIVE PositiveGcd(_, _)
PositiveGcd(x, y) == IF y = 0 THEN x ELSE PositiveGcd(y, x % y)

Gcd3(a1, a2, s) == PositiveGcd(PositiveGcd(a1, a2), Abs(s))

NormalB(a, b) == b + 2 * a * ((a - b) \div (2 * a))

RECURSIVE ReducedClass(_, _, _)
ReducedStep(a, b, c, D) ==
    IF a > c THEN ReducedClass(c, -b, D)
    ELSE IF a = c /\ b < 0 THEN Elem(a, -b, c, D)
    ELSE Elem(a, b, c, D)

\* the reduced form equivalent to the form (a, b, (b^2 - D) / 4a)
ReducedClass(a, b, D) ==
    ReducedStep(a, NormalB(a, b), (NormalB(a, b) * NormalB(a, b) - D) \div (4 * a), D)

DirichletB(f, g, G, a3) ==
    CHOOSE B \in 0..(2 * a3 - 1) :
        /\ (B - f.b) % (2 * (f.a \div G)) = 0
        /\ (B - g.b) % (2 * (g.a \div G)) = 0
        /\ (((f.b + g.b) \div (2 * G)) * B
              - (f.b * g.b + f.discriminant) \div (2 * G)) % (2 * a3) = 0

DirichletForm(f, g, G, a3) == ReducedClass(a3, DirichletB(f, g, G, a3), f.discriminant)

DirichletGcd(f, g, G) == DirichletForm(f, g, G, (f.a * g.a) \div (G * G))

ClassProduct(f, g) == DirichletGcd(f, g, Gcd3(f.a, g.a, (f.b + g.b) \div 2))

\* C15: compose(f, g) is the reduced form of the Dirichlet composition of f
\* and g, and square(f) that of f with itself, for all reduced forms f, g
C15_ClassGroupLaw ==
    /\ cgOp = "compose" => cgOut = ClassProduct(cgIn[1], cgIn[2])
    /\ cgOp = "square" => cgOut = ClassProduct(cgIn[1], cgIn[1])

\* the while loop of the reduce() call of the state, at its exit
ReduceLoopExit ==
    reduce_loop(LoopState(cgIn[1].a, cgIn[1].b, cgIn[1].c, 0, FALSE, "ok"), MAX_STEPS)

\* C16: on every form with a > 0, c > 0 and discriminant D < 0, reduce leaves
\* its loop through the reduced-form exit, not by the 1000-step cap, and the
\* result is reduced and has discriminant D
C16_ReduceReaches ==
    cgOp = "reduce" =>
        /\ cgOut.st = "ok"
        /\ ReduceLoopExit.done
        /\ ReduceLoopExit.steps < MAX_STEPS
        /\ IsReduced(cgOut)
        /\ Disc(cgOut) = cgD

\* the form (a, 1, c) with c the exact quotient (1 - D) / 4a, reduced
Canonical(x, a, D) ==
    /\ x.a = a
    /\ x.b = 1
    /\ 4 * a * x.c = 1 - D
    /\ Disc(x) = D
    /\ Abs(x.b) <= x.a
    /\ x.a <= x.c

\* C17: generator(D) is exactly (2, 1, (1 - D)/8) and identity(D) exactly
\* (1, 1, (1 - D)/4), each with an exact c, discriminant D, and reduced
C17_CanonicalConstructors ==
    /\ cgOp = "generator" => Canonical(cgOut, 2, cgD)
    /\ cgOp = "identity" => Canonical(cgOut, 1, cgD)

\* s and g of the compose() call of the state, as the code computes them
ComposeS == TDiv(cgIn[1].b + cgIn[2].b, 2)
ComposeG == gcd(gcd(cgIn[1].a, cgIn[2].a), ComposeS)
BranchReached == cgOp = "compose" /\ cgIn[1].a # 1 /\ cgIn[2].a # 1

\* C18: the g of compose is the positive greatest common divisor of a1, a2
\* and s, so the coprime branch is taken exactly when they share no factor,
\* and the a3 handed to reduce is positive
C18_BranchSelection ==
    BranchReached =>
        /\ ComposeG = Gcd3(cgIn[1].a, cgIn[2].a, ComposeS)
        /\ compose_raw(cgIn[1], cgIn[2]).st = "ok"
        /\ compose_raw(cgIn[1], cgIn[2]).a > 0

\* n has no divisor d, d + 1, ... up to its square root
RECURSIVE NoDivisorFrom(_, _)
NoDivisorFrom(n, d) ==
    IF d * d > n THEN TRUE
    ELSE IF n % d = 0 THEN FALSE
    ELSE NoDivisorFrom(n, d + 1)

IsPrime(n) == n >= 2 /\ NoDivisorFrom(n, 2)

\* l is the least odd integer >= h that passes is_probably_prime
LeastOddPassing(h, l) ==
    /\ l >= h
    /\ l % 2 = 1
    /\ is_probably_prime(l)
    /\ \A k \in h..(l - 1) : k % 2 = 1 => ~is_probably_prime(k)

\* C19: hash_prime returns the least odd l >= h that passes is_probably_prime,
\* is_probably_prime(n) is true exactly when n is prime, and l is an odd prime
C19_HashToPrime ==
    /\ cgOp = "hash_prime" =>
         /\ LeastOddPassing(cgIn[1], cgOut.value)
         /\ IsPrime(cgOut.value)
    /\ cgOp = "is_probably_prime" => cgOut.value = IsPrime(cgIn[1])

\* hash_prime walked past 2047 = 23 * 89, which passes the test of witness 2
\* alone, and returned a prime
C19_Witness ==
    /\ cgOp = "hash_prime"
    /\ cgIn[1] <= 2047
    /\ cgOut.value > 2047
    /\ mod_pow(2, 1023, 2047) = 1
    /\ IsPrime(cgOut.value)

\* C20: when deserialize accepts the leading bytes of the proof as pi, verify
\* reads the length field of q at the number of bytes deserialize consumed
C20_ParsingPosition ==
    pc = "verified" /\ Len(call.proof) >= 23 /\ ParsedElement.st = "ok"
        => Len(serialize(ParsedElement)) = consumed(call.proof)
====
